---- MODULE Spec2Model ----
(***************************************************************************)
(* klio: the pipeline assembly of KlioPipeline (klio_exec/commands/run.py) *)
(* and the data existence check transforms (klio/transforms/_helpers.py).  *)
(*                                                                         *)
(* Two specifications share the variables:                                 *)
(*   Spec       KlioPipeline.run() builds the Beam graph from the job      *)
(*              configuration and the host engine then moves elements      *)
(*              through the transforms of the graph that was built;        *)
(*   StageSpec  one existence check transform, defined by its metaclass    *)
(*              and driven element by element by the host engine.          *)
(***************************************************************************)
EXTENDS Integers, Sequences, FiniteSets, TLC

VARIABLES
    config,        \* KlioConfig: job_config and pipeline_options (read-only)
    env,           \* what run.py and os.environ hold
    runtime_conf,  \* KlioPipeline.runtime_conf
    pc,            \* position of KlioPipeline.run()
    depth,         \* number of nested calls of KlioPipeline.run()
    graph,         \* the transforms applied to the beam.Pipeline
    run_invoked,   \* number of calls of pipeline.run()
    started,       \* the host engine executes the graph
    stage,         \* StageSpec: the existence check class under test
    unread,        \* number of elements the sources still hold
    elems          \* the elements read so far: where each is, what was logged
                   \* for it, whether its exception reached the host engine,
                   \* and the exists() calls made for it, in order

vars == << config, env, runtime_conf, pc, depth, graph, run_invoked, started,
           stage, unread, elems >>

(***************************************************************************)
(* Bounds of the model.                                                    *)
(***************************************************************************)
MaxDataIO == 2        \* longest data_inputs / data_outputs list
MaxEventInputs == 2   \* longest event_inputs list
MaxEventOutputs == 2  \* longest event_outputs list
MaxElems == 2         \* elements the host engine reads in one behaviour

SupportedVersion == 2

Versions == {1, SupportedVersion}

(***************************************************************************)
(* Values of the Python variables that hold a PCollection, the pipeline    *)
(* itself, or None.  A PCollection is identified by the outputs of the     *)
(* transforms that feed it: beam.Flatten() is the union of its sources.    *)
(* A source is <<input, transform variable, tag>>.                         *)
(***************************************************************************)
None == [kind |-> "none", src |-> {}]

ThePipeline == [kind |-> "pipeline", src |-> {}]

PColl(sources) == [kind |-> "pcoll", src |-> sources]

\* Python truth of `if to_pass_thru:`: None is false, an object without
\* __bool__ / __len__ (a PCollection) is true.
Truthy(v) == v.kind # "none"

Flatten(pcolls) == PColl(UNION {p.src : p \in pcolls})

Src(i, var, tag) == << i, var, tag >>

\* A transform applied with `pcoll | label >> transform`: its label, the event
\* input whose chain it belongs to, and the sources of the PCollection it reads.
Applied(label, i, from) == [label |-> label, inp |-> i, from |-> from]

(***************************************************************************)
(* KlioPipeline properties                                                 *)
(***************************************************************************)
HasEventInputs(cfg) == Len(cfg.event_inputs) > 0

HasMultiEventInputs(cfg) == Len(cfg.event_inputs) > 1

HasEventOutputs(cfg) == Len(cfg.event_outputs) > 0

\* A variant of the packaging check with all() in place of any().
VerifyPackagingExitsAll(cfg) ==
    /\ cfg.fnapi_enabled
    /\ (cfg.has_setup_file /\ cfg.has_reqs_file)

(***************************************************************************)
(* KlioPipeline._verify_packaging: TRUE when it raises SystemExit(1).      *)
(***************************************************************************)
VerifyPackagingExits(cfg) ==
    /\ cfg.fnapi_enabled
    /\ (cfg.has_setup_file \/ cfg.has_reqs_file)

(***************************************************************************)
(* KlioPipeline._setup_data_io_filters(in_pcol, label_prefix), for the     *)
(* chain of event input i.                                                 *)
(***************************************************************************)
\* the guard of lines 245-252: SystemExit(1)
MultiDataIO(cfg) ==
    \/ Len(cfg.data_inputs) > 1
    \/ Len(cfg.data_outputs) > 1

SkipOutputCheck(cfg) == cfg.data_outputs[1].skip_klio_existence_check

SkipInputCheck(cfg) == cfg.data_inputs[1].skip_klio_existence_check

InPcol(i) == {Src(i, "read", "out")}

\* A variant that applies the output existence filter to what was read.
OutputFilterStagesBeforePing(cfg, i) ==
    {Applied("Ping Filter", i, InPcol(i))}
    \cup (IF ~SkipOutputCheck(cfg)
          THEN {Applied("Output Exists Filter", i, InPcol(i)),
                Applied("Output Force Filter", i,
                        {Src(i, "output_exists", "found")})}
          ELSE {})

\* A variant that applies the output filters whatever the skip flag is.
OutputFilterStagesAlways(cfg, i) ==
    {Applied("Ping Filter", i, InPcol(i)),
     Applied("Output Exists Filter", i, {Src(i, "pings", "process")}),
     Applied("Output Force Filter", i, {Src(i, "output_exists", "found")})}

\* lines 264-292: the transforms of the ping / output-exists / force part
OutputFilterStages(cfg, i) ==
    {Applied("Ping Filter", i, InPcol(i))}
    \cup (IF ~SkipOutputCheck(cfg)
          THEN {Applied("Output Exists Filter", i, {Src(i, "pings", "process")}),
                Applied("Output Force Filter", i,
                        {Src(i, "output_exists", "found")})}
          ELSE {})

\* Variants of to_pass_thru that leave one of its two sources out.
ToPassThruForceOnly(cfg, i) == PColl({Src(i, "output_force", "pass_thru")})

ToPassThruPingOnly(cfg, i) == PColl({Src(i, "pings", "pass_thru")})

\* lines 276-280, 291: to_pass_thru
ToPassThru(cfg, i) ==
    IF ~SkipOutputCheck(cfg)
    THEN Flatten({PColl({Src(i, "pings", "pass_thru")}),
                  PColl({Src(i, "output_force", "pass_thru")})})
    ELSE PColl({Src(i, "pings", "pass_thru")})

\* A variant of to_filter_input that leaves the forced elements out.
ToFilterInputNotFoundOnly(cfg, i) ==
    IF ~SkipOutputCheck(cfg)
    THEN PColl({Src(i, "output_exists", "not_found")})
    ELSE PColl({Src(i, "pings", "process")})

\* lines 282-289, 292: to_filter_input
ToFilterInput(cfg, i) ==
    IF ~SkipOutputCheck(cfg)
    THEN Flatten({PColl({Src(i, "output_exists", "not_found")}),
                  PColl({Src(i, "output_force", "process")})})
    ELSE PColl({Src(i, "pings", "process")})

\* A variant of the input-exists part without the drop transform.
InputFilterStagesNoDrop(cfg, i) ==
    IF ~SkipInputCheck(cfg)
    THEN {Applied("Input Exists Filter", i, ToFilterInput(cfg, i).src)}
    ELSE {}

\* lines 294-303: the transforms of the input-exists part
InputFilterStages(cfg, i) ==
    IF ~SkipInputCheck(cfg)
    THEN {Applied("Input Exists Filter", i, ToFilterInput(cfg, i).src),
          Applied("Drop Not Found Data", i,
                  {Src(i, "input_exists", "not_found")})}
    ELSE {}

\* A variant of to_process that hands on what enters the input filter.
ToProcessUnfiltered(cfg, i) == ToFilterInput(cfg, i)

\* lines 304-306: to_process
ToProcess(cfg, i) ==
    IF ~SkipInputCheck(cfg)
    THEN PColl({Src(i, "input_exists", "found")})
    ELSE ToFilterInput(cfg, i)

\* What a part of the assembly hands back: whether it raised SystemExit or
\* another exception, the Read transforms and the transforms it applied, and
\* the values of to_process and to_pass_thru.
Built(reads, stages, to_process, to_pass_thru) ==
    [outcome |-> "ok", reads |-> reads, stages |-> stages,
     to_process |-> to_process, to_pass_thru |-> to_pass_thru]

Aborted(how) ==
    [outcome |-> how, reads |-> {}, stages |-> {},
     to_process |-> None, to_pass_thru |-> None]

SetupDataIoFilters(cfg, i) ==
    IF MultiDataIO(cfg)
    THEN Aborted("exit")
    ELSE Built({i},
               OutputFilterStages(cfg, i) \cup InputFilterStages(cfg, i),
               ToProcess(cfg, i),
               ToPassThru(cfg, i))

(***************************************************************************)
(* KlioPipeline._generate_pcoll(pipeline, input_config, label_prefix)      *)
(***************************************************************************)
GeneratePcoll(cfg, i) ==
    IF cfg.event_inputs[i].skip_klio_read
    THEN Built({}, {}, ThePipeline, None)
    ELSE SetupDataIoFilters(cfg, i)

(***************************************************************************)
(* KlioPipeline._generate_pcoll_per_input(pipeline).  The loop stops at    *)
(* the first input whose chain raises.  `[] | beam.Flatten()` has no       *)
(* pipeline to attach to and raises ValueError in Beam.                    *)
(***************************************************************************)
\* A variant that keeps the pass-thru of the first input only.
MultiToPassThruFirst(cfg) ==
    {GeneratePcoll(cfg, 1).to_pass_thru} \ {None}

MultiToPassThru(cfg) ==
    {GeneratePcoll(cfg, i).to_pass_thru : i \in 1..Len(cfg.event_inputs)}
        \ {None}

GeneratePcollPerInput(cfg) ==
    LET inputs == 1..Len(cfg.event_inputs)
        per == [i \in inputs |-> GeneratePcoll(cfg, i)]
    IN  IF \E i \in inputs : per[i].outcome # "ok"
        THEN Aborted("exit")
        ELSE IF MultiToPassThru(cfg) = {}
        THEN Aborted("raised")
        ELSE Built(UNION {per[i].reads : i \in inputs},
                   UNION {per[i].stages : i \in inputs},
                   [kind |-> "tuple",
                    src |-> UNION {per[i].to_process.src : i \in inputs}],
                   Flatten(MultiToPassThru(cfg)))

(***************************************************************************)
(* KlioPipeline._setup_pipeline(pipeline)                                  *)
(***************************************************************************)
OutPcol == PColl({Src(0, "run", "out")})

\* lines 366-378
InputSide(cfg) ==
    IF HasEventInputs(cfg)
    THEN IF ~HasMultiEventInputs(cfg)
         THEN GeneratePcoll(cfg, 1)
         ELSE GeneratePcollPerInput(cfg)
    ELSE Built({}, {}, ThePipeline, None)

\* A variant of to_output that forwards the callable's output alone.
ToOutputCallableOnly(to_pass_thru) == OutPcol

\* lines 386-391: to_output
ToOutput(to_pass_thru) ==
    IF Truthy(to_pass_thru)
    THEN Flatten({OutPcol, to_pass_thru})
    ELSE OutPcol

\* A variant that applies the output transform whatever skip_klio_write is.
OutputStagesIgnoringSkipWrite(cfg, to_pass_thru) ==
    IF HasEventOutputs(cfg)
    THEN {Applied("Write Event Output", 0, ToOutput(to_pass_thru).src)}
    ELSE {}

\* lines 382-395: the output transform, when one is applied
OutputStages(cfg, to_pass_thru) ==
    IF HasEventOutputs(cfg) /\ ~cfg.event_outputs[1].skip_klio_write
    THEN {Applied("Write Event Output", 0, ToOutput(to_pass_thru).src)}
    ELSE {}

NoGraph == [reads |-> {}, stages |-> {}, to_pass_thru |-> None]

SetupPipeline(cfg, e) ==
    IF ~e.has_run_callable
    THEN [outcome |-> "exit", graph |-> NoGraph]
    ELSE LET side == InputSide(cfg)
         IN  IF side.outcome # "ok"
             THEN [outcome |-> side.outcome, graph |-> NoGraph]
             ELSE [outcome |-> "ok",
                   graph |->
                     [reads |-> side.reads,
                      stages |-> side.stages
                                 \cup {Applied("run", 0, side.to_process.src)}
                                 \cup OutputStages(cfg, side.to_pass_thru),
                      to_pass_thru |-> side.to_pass_thru]]

(***************************************************************************)
(* Elements.  What the host engine reads from an event input is a byte     *)
(* string: either a serialized KlioMessage or bytes that do not parse.     *)
(* out_exists / in_exists say whether the element's path exists under the  *)
(* data output / data input location.                                      *)
(***************************************************************************)
Wires == {"klio", "garbage"}

RawItems ==
    {[wire |-> "klio", ping |-> p, force |-> f] : p \in BOOLEAN, f \in BOOLEAN}
    \cup {[wire |-> "garbage", ping |-> FALSE, force |-> FALSE]}

\* v2_msg_handler._to_klio_message: parse the bytes, fail when they do not
\* parse as a KlioMessage.
ToKlioMessage(item) ==
    IF item.wire = "klio"
    THEN [failed |-> FALSE,
          kmsg |-> [metadata |-> [ping |-> item.ping, force |-> item.force]]]
    ELSE [failed |-> TRUE,
          kmsg |-> [metadata |-> [ping |-> FALSE, force |-> FALSE]]]

\* kmsg.SerializeToString()
SerializeToString(kmsg) ==
    [wire |-> "klio", ping |-> kmsg.metadata.ping,
     force |-> kmsg.metadata.force]

RawOf(e) == [wire |-> e.wire, ping |-> e.ping, force |-> e.force]

NewElem(i, item, oe, ie, where) ==
    [inp |-> i, wire |-> item.wire, ping |-> item.ping, force |-> item.force,
     out_exists |-> oe, in_exists |-> ie, at |-> where, called |-> FALSE,
     payload |-> "element", logged |-> 0, escaped |-> FALSE,
     lookups |-> << >>, trail |-> << where >>, seq |-> 0]

\* The source an element sits in.  The callable's output is one PCollection
\* for all inputs.
SrcOf(e) ==
    IF e.at[1] = "run" THEN Src(0, e.at[1], e.at[2])
    ELSE Src(e.inp, e.at[1], e.at[2])

(***************************************************************************)
(* The existence check transform.                                          *)
(***************************************************************************)
Directions == {"input", "output"}

FOUND == "found"

NOT_FOUND == "not_found"

\* _KlioGcsDataExistsMixin.exists(path): the answer of the store, or the
\* client raising (network, permission).
Exists(direction, e, fails) ==
    IF fails THEN "raise"
    ELSE IF direction = "input"
    THEN (IF e.in_exists THEN "true" ELSE "false")
    ELSE (IF e.out_exists THEN "true" ELSE "false")

\* _KlioGcsCheckExistsBase.process(kmsg): the tags it yields, and whether it
\* raised before yielding.
GcsCheckExistsProcess(kmsg, answer) ==
    IF answer = "raise"
    THEN [raised |-> TRUE, tags |-> {}, out |-> SerializeToString(kmsg)]
    ELSE [raised |-> FALSE,
          tags |-> {IF answer # "true" THEN NOT_FOUND ELSE FOUND},
          out |-> SerializeToString(kmsg)]

\* A variant of the wrapper that decodes outside the try block.
WrapProcessDecodeOutsideTry(item, answer) ==
    LET decoded == ToKlioMessage(item)
        r == GcsCheckExistsProcess(decoded.kmsg, answer)
    IN  IF decoded.failed
        THEN [tags |-> {}, out |-> item, logged |-> FALSE, escaped |-> TRUE,
              looked_up |-> FALSE]
        ELSE IF r.raised
        THEN [tags |-> {}, out |-> item, logged |-> TRUE, escaped |-> FALSE,
              looked_up |-> TRUE]
        ELSE [tags |-> r.tags, out |-> r.out, logged |-> FALSE,
              escaped |-> FALSE, looked_up |-> TRUE]

\* _wrap_process(meth): wrapper(self, incoming_item).  Decoding and the
\* wrapped generator both run inside the try block.
WrapProcess(item, answer) ==
    LET decoded == ToKlioMessage(item)
        r == GcsCheckExistsProcess(decoded.kmsg, answer)
    IN  IF decoded.failed \/ r.raised
        THEN [tags |-> {}, out |-> item, logged |-> TRUE, escaped |-> FALSE,
              looked_up |-> ~decoded.failed]
        ELSE [tags |-> r.tags, out |-> r.out, logged |-> FALSE,
              escaped |-> FALSE, looked_up |-> TRUE]

\* process() as the class defines it when the metaclass did not wrap it: the
\* incoming bytes have no `data` attribute, AttributeError reaches the caller.
UnwrappedProcess(item, answer) ==
    [tags |-> {}, out |-> item, logged |-> FALSE, escaped |-> TRUE,
     looked_up |-> FALSE]

\* The per-element entry point of the class.
EntryPoint(defined, item, answer) ==
    IF defined = "wrapped" THEN WrapProcess(item, answer)
    ELSE UnwrappedProcess(item, answer)

\* A variant of the metaclass without the version check.
MetaclassInitNoVersionCheck(version, test_mode) ==
    IF test_mode THEN "unwrapped" ELSE "wrapped"

\* _KlioBaseDoFnMetaclass.__init__ for a class that defines process():
\* what becomes of the class.
MetaclassInit(version, test_mode) ==
    IF test_mode THEN "unwrapped"
    ELSE IF version # SupportedVersion THEN "error"
    ELSE "wrapped"

(***************************************************************************)
(* helpers.KlioFilterPing / KlioFilterForce / KlioDrop                     *)
(***************************************************************************)
TagMessage(item, to_process) ==
    LET decoded == ToKlioMessage(item)
    IN  IF decoded.failed
        THEN [tags |-> {}, out |-> item, logged |-> TRUE]
        ELSE [tags |-> {IF to_process THEN "process" ELSE "pass_thru"},
              out |-> SerializeToString(decoded.kmsg), logged |-> FALSE]

FilterPing(item) == TagMessage(item, ~ToKlioMessage(item).kmsg.metadata.ping)

FilterForce(item) == TagMessage(item, ToKlioMessage(item).kmsg.metadata.force)

(***************************************************************************)
(* State                                                                   *)
(***************************************************************************)
Ids == 1..Len(elems)

\* Some applied transform with this label reads the PCollection e is in.
Consumes(label, e) ==
    \E s \in graph.stages : s.label = label /\ SrcOf(e) \in s.from

\* Element e put into the PCollection `where`.
Move(e, where) == [e EXCEPT !.at = where, !.trail = Append(@, where)]

\* Element e after it left transform `var` with the outcome res of the
\* transform's entry point: under its tag, or under no tag at all.
Leave(e, var, res) ==
    [Move(e, IF res.tags = {}
             THEN << var, "nothing" >>
             ELSE << var, CHOOSE t \in res.tags : TRUE >>)
       EXCEPT !.wire = res.out.wire,
              !.ping = res.out.ping,
              !.force = res.out.force,
              !.logged = IF res.logged THEN @ + 1 ELSE @]

\* data_inputs / data_outputs: only entry [0] is ever read, the flags of the
\* other entries are fixed.
DataConfigs ==
    {[j \in 1..m |-> [skip_klio_existence_check |-> (j = 1 /\ b)]] :
        m \in 1..MaxDataIO, b \in BOOLEAN}

EventInputConfigs ==
    UNION {[1..m -> {[skip_klio_read |-> b] : b \in BOOLEAN}] :
              m \in 0..MaxEventInputs}

\* event_outputs: only entry [0] is ever read.
EventOutputConfigs ==
    {[j \in 1..m |-> [skip_klio_write |-> (j = 1 /\ b)]] :
        m \in 0..MaxEventOutputs, b \in BOOLEAN}

JobConfigs ==
    [version : {SupportedVersion},
     data_inputs : DataConfigs,
     data_outputs : DataConfigs,
     event_inputs : EventInputConfigs,
     event_outputs : EventOutputConfigs,
     fnapi_enabled : BOOLEAN,
     has_setup_file : BOOLEAN,
     has_reqs_file : BOOLEAN]

\* A job whose packaging, run.py and update flag give the assembly nothing to
\* reject, and whose one event output is written.
PlainJob ==
    /\ ~config.fnapi_enabled /\ ~config.has_setup_file /\ ~config.has_reqs_file
    /\ env.has_run_callable
    /\ ~runtime_conf.update
    /\ config.event_outputs = << [skip_klio_write |-> FALSE] >>

\* Every job configuration with at most one element to read, and the plain
\* jobs with MaxElems elements.
Init ==
    /\ config \in JobConfigs
    /\ env \in [has_run_callable : BOOLEAN, test_mode : {FALSE}]
    /\ runtime_conf \in [update : BOOLEAN]
    /\ pc = "verify"
    /\ depth = 1
    /\ graph = NoGraph
    /\ run_invoked = 0
    /\ started = FALSE
    /\ stage = [defined |-> MetaclassInit(config.version, env.test_mode),
                direction |-> "both"]
    /\ unread \in 1..MaxElems
    /\ (unread > 1 => PlainJob)
    /\ elems = << >>

(***************************************************************************)
(* KlioPipeline.run()                                                      *)
(***************************************************************************)
\* line 398
VerifyPackaging ==
    /\ pc = "verify"
    /\ pc' = IF VerifyPackagingExits(config) THEN "exit" ELSE "setup"
    /\ UNCHANGED << config, env, runtime_conf, depth, graph, run_invoked,
                    started, stage, unread, elems >>

\* lines 399-404: a new beam.Pipeline, then _setup_pipeline
RunSetupPipeline ==
    /\ pc = "setup"
    /\ LET b == SetupPipeline(config, env)
       IN  /\ graph' = b.graph
           /\ pc' = IF b.outcome = "ok" THEN "run" ELSE b.outcome
    /\ UNCHANGED << config, env, runtime_conf, depth, run_invoked, started,
                    stage, unread, elems >>

\* What pipeline.run() of the host engine does: return a result, or raise a
\* ValueError with some message.
RunResults == {"ok", "No running job found with name", "other ValueError"}

\* A variant of the ValueError handler that retries without clearing update.
PipelineRunKeepUpdate ==
    /\ pc = "run"
    /\ run_invoked' = run_invoked + 1
    /\ \E result \in RunResults, wait \in BOOLEAN :
         IF result = "ok"
         THEN /\ started' = TRUE
              /\ pc' = IF wait THEN "wait" ELSE "done"
              /\ UNCHANGED << runtime_conf, depth >>
         ELSE IF runtime_conf.update /\ result = "No running job found with name"
         THEN /\ depth' = depth + 1
              /\ pc' = "verify"
              /\ UNCHANGED << runtime_conf, started >>
         ELSE /\ pc' = "exit"
              /\ UNCHANGED << runtime_conf, depth, started >>
    /\ UNCHANGED << config, env, graph, stage, unread, elems >>

\* lines 406-428: pipeline.run(), the ValueError handler, and
\* result.wait_until_finish() when direct_runner or blocking is set (wait)
PipelineRun ==
    /\ pc = "run"
    /\ run_invoked' = run_invoked + 1
    /\ \E result \in RunResults, wait \in BOOLEAN :
         IF result = "ok"
         THEN /\ started' = TRUE
              /\ pc' = IF wait THEN "wait" ELSE "done"
              /\ UNCHANGED << runtime_conf, depth >>
         ELSE IF runtime_conf.update /\ result = "No running job found with name"
         THEN /\ runtime_conf' = [runtime_conf EXCEPT !.update = FALSE]
              /\ depth' = depth + 1
              /\ pc' = "verify"
              /\ UNCHANGED started
         ELSE /\ pc' = "exit"
              /\ UNCHANGED << runtime_conf, depth, started >>
    /\ UNCHANGED << config, env, graph, stage, unread, elems >>

\* line 428
WaitUntilFinish ==
    /\ pc = "wait"
    /\ pc' = "done"
    /\ UNCHANGED << config, env, runtime_conf, depth, graph, run_invoked,
                    started, stage, unread, elems >>

(***************************************************************************)
(* The host engine executing the graph, one element and one transform at   *)
(* a time, in any order.                                                   *)
(***************************************************************************)
BuildVars == << config, env, runtime_conf, pc, depth, graph, run_invoked,
                started, stage >>

\* A Read transform of the graph emitting the next element of its source.
ReadEventInput(i) ==
    /\ started
    /\ i \in graph.reads
    /\ unread > 0
    /\ unread' = unread - 1
    /\ \E item \in RawItems, oe \in BOOLEAN, ie \in BOOLEAN :
         /\ item.wire = "garbage" => ~oe /\ ~ie
         /\ elems' = Append(elems, NewElem(i, item, oe, ie, << "read", "out" >>))
    /\ UNCHANGED BuildVars

PingFilter(k) ==
    /\ started
    /\ Consumes("Ping Filter", elems[k])
    /\ elems' = [elems EXCEPT ![k] = Leave(@, "pings", FilterPing(RawOf(@)))]
    /\ UNCHANGED << BuildVars, unread >>

\* Element e after the entry point of an existence check class was called
\* with it; fails: the lookup raises.
ExistenceCheck(e, var, direction, fails) ==
    LET res == EntryPoint(stage.defined, RawOf(e), Exists(direction, e, fails))
        answer == Exists(direction, e, fails)
    IN  [Leave(e, var, res) EXCEPT
            !.escaped = res.escaped,
            !.lookups = IF res.looked_up
                        THEN Append(@, [direction |-> direction,
                                       answer |-> answer])
                        ELSE @]

OutputExistsFilter(k) ==
    /\ started
    /\ Consumes("Output Exists Filter", elems[k])
    /\ \E fails \in BOOLEAN :
         elems' = [elems EXCEPT
                     ![k] = ExistenceCheck(@, "output_exists", "output", fails)]
    /\ UNCHANGED << BuildVars, unread >>

ForceFilter(k) ==
    /\ started
    /\ Consumes("Output Force Filter", elems[k])
    /\ elems' = [elems EXCEPT
                   ![k] = Leave(@, "output_force", FilterForce(RawOf(@)))]
    /\ UNCHANGED << BuildVars, unread >>

InputExistsFilter(k) ==
    /\ started
    /\ Consumes("Input Exists Filter", elems[k])
    /\ \E fails \in BOOLEAN :
         elems' = [elems EXCEPT
                     ![k] = ExistenceCheck(@, "input_exists", "input", fails)]
    /\ UNCHANGED << BuildVars, unread >>

\* helpers.KlioDrop: yields nothing
DropNotFound(k) ==
    /\ started
    /\ Consumes("Drop Not Found Data", elems[k])
    /\ elems' = [elems EXCEPT ![k] = Move(@, << "drop", "dropped" >>)]
    /\ UNCHANGED << BuildVars, unread >>

\* The transforms the user's run() applies: they are handed the element and
\* put a result into out_pcol.
UserCallable(k) ==
    /\ started
    /\ Consumes("run", elems[k])
    /\ elems' = [elems EXCEPT
                   ![k] = [Move(@, << "run", "out" >>) EXCEPT
                             !.called = TRUE, !.payload = "result"]]
    /\ UNCHANGED << BuildVars, unread >>

\* The event output transform writing one element of to_output.
WriteEventOutput(k) ==
    /\ started
    /\ Consumes("Write Event Output", elems[k])
    /\ elems' = [elems EXCEPT ![k] = Move(@, << "write", "written" >>)]
    /\ UNCHANGED << BuildVars, unread >>

Next ==
    \/ VerifyPackaging
    \/ RunSetupPipeline
    \/ PipelineRun
    \/ WaitUntilFinish
    \/ \E i \in 1..MaxEventInputs : ReadEventInput(i)
    \/ \E k \in Ids : PingFilter(k)
    \/ \E k \in Ids : OutputExistsFilter(k)
    \/ \E k \in Ids : ForceFilter(k)
    \/ \E k \in Ids : InputExistsFilter(k)
    \/ \E k \in Ids : DropNotFound(k)
    \/ \E k \in Ids : UserCallable(k)
    \/ \E k \in Ids : WriteEventOutput(k)

Spec == Init /\ [][Next]_vars

(***************************************************************************)
(* StageSpec: one existence check class on its own.  The metaclass runs    *)
(* when the class is defined; the host engine then calls the entry point   *)
(* of the class once per element, in any order.                            *)
(***************************************************************************)
StageJob ==
    [version |-> SupportedVersion,
     data_inputs |-> << [skip_klio_existence_check |-> FALSE] >>,
     data_outputs |-> << [skip_klio_existence_check |-> FALSE] >>,
     event_inputs |-> << [skip_klio_read |-> FALSE] >>,
     event_outputs |-> << [skip_klio_write |-> FALSE] >>,
     fnapi_enabled |-> FALSE,
     has_setup_file |-> FALSE,
     has_reqs_file |-> FALSE]

StageInit ==
    /\ config \in {[StageJob EXCEPT !.version = v] : v \in Versions}
    /\ env \in [has_run_callable : {TRUE}, test_mode : BOOLEAN]
    /\ runtime_conf = [update |-> FALSE]
    /\ pc = "stage"
    /\ depth = 0
    /\ graph = NoGraph
    /\ run_invoked = 0
    /\ started = FALSE
    /\ stage \in [defined : {"undefined"}, direction : Directions]
    /\ unread = MaxElems
    /\ elems = << >>

\* _KlioBaseDoFnMetaclass.__init__(cls, name, bases, clsdict)
DefineStage ==
    /\ stage.defined = "undefined"
    /\ stage' = [stage EXCEPT
                   !.defined = MetaclassInit(config.version, env.test_mode)]
    /\ UNCHANGED << config, env, runtime_conf, pc, depth, graph, run_invoked,
                    started, unread, elems >>

StageUsable == stage.defined \in {"wrapped", "unwrapped"}

\* The host engine has the next item for the transform.
StageReceive ==
    /\ pc = "stage"
    /\ StageUsable
    /\ unread > 0
    /\ unread' = unread - 1
    /\ \E item \in RawItems, oe \in BOOLEAN, ie \in BOOLEAN :
         /\ item.wire = "garbage" => ~oe /\ ~ie
         /\ (stage.direction = "input" => ~oe)
         /\ (stage.direction = "output" => ~ie)
         /\ elems' = Append(elems, NewElem(0, item, oe, ie, << "stage", "in" >>))
    /\ UNCHANGED BuildVars

\* A variant in which the instance keeps the answer of its last lookup and
\* tags the next element with it.
StageProcessCachedAnswer(k) ==
    /\ pc = "stage"
    /\ StageUsable
    /\ elems[k].at = << "stage", "in" >>
    /\ \E fails \in BOOLEAN, j \in Ids :
         elems' = [elems EXCEPT
                     ![k] = [ExistenceCheck(
                                [@ EXCEPT !.in_exists = elems[j].in_exists,
                                          !.out_exists = elems[j].out_exists],
                                "stage", stage.direction, fails)
                               EXCEPT !.in_exists = elems[k].in_exists,
                                      !.out_exists = elems[k].out_exists,
                                      !.seq = Cardinality(
                                   {i \in Ids : elems[i].at # << "stage", "in" >>})]]
    /\ UNCHANGED << BuildVars, unread >>

\* The host engine calls the entry point with element k and takes all it
\* yields.
StageProcess(k) ==
    /\ pc = "stage"
    /\ StageUsable
    /\ elems[k].at = << "stage", "in" >>
    /\ \E fails \in BOOLEAN :
         elems' = [elems EXCEPT
                     ![k] = [ExistenceCheck(@, "stage", stage.direction, fails)
                               EXCEPT !.seq = Cardinality(
                                   {j \in Ids : elems[j].at # << "stage", "in" >>})]]
    /\ UNCHANGED << BuildVars, unread >>

StageNext ==
    \/ DefineStage
    \/ StageReceive
    \/ \E k \in Ids : StageProcess(k)

StageSpec == StageInit /\ [][StageNext]_vars

(***************************************************************************)
(* Properties                                                              *)
(***************************************************************************)
Klio(e) == e.wire = "klio"

NonPing(e) == Klio(e) /\ ~e.ping

Visited(e, where) == \E n \in 1..Len(e.trail) : e.trail[n] = where

\* No transform of the graph will take the element from where it is.
Settled(e) == \A s \in graph.stages : SrcOf(e) \notin s.from

NoLookupRaised(e) == \A n \in 1..Len(e.lookups) : e.lookups[n].answer # "raise"

SomeLookupRaised(e) == \E n \in 1..Len(e.lookups) : e.lookups[n].answer = "raise"

Written(e) == e.at = << "write", "written" >>

Dropped(e) == e.at = << "drop", "dropped" >>

HandedToOutput(e) == Consumes("Write Event Output", e) \/ Written(e)

\* The job has an event output and skip_klio_write is not set for it.
OutputWritten ==
    /\ Len(config.event_outputs) > 0
    /\ ~config.event_outputs[1].skip_klio_write

OutputCheckOn == ~config.data_outputs[1].skip_klio_existence_check

InputCheckOn == ~config.data_inputs[1].skip_klio_existence_check

\* C1: whatever the two skip_existence_check flags are, an element marked
\* ping that left the ping filter left it under pass_thru, that output is
\* part of to_pass_thru, the element is in PASS_THRU or written from it, and
\* the user callable was not handed it.
C1_PingToPassThru ==
    \A k \in Ids :
        LET e == elems[k]
        IN  (e.ping /\ e.at # << "read", "out" >>) =>
                /\ e.trail[2] = << "pings", "pass_thru" >>
                /\ Src(e.inp, "pings", "pass_thru") \in graph.to_pass_thru.src
                /\ e.at \in {<< "pings", "pass_thru" >>, << "write", "written" >>}
                /\ ~e.called
                /\ ~Visited(e, << "run", "out" >>)

C1_Witness ==
    \E k \in Ids :
        /\ OutputCheckOn /\ InputCheckOn
        /\ elems[k].ping
        /\ ~elems[k].in_exists
        /\ elems[k].at = << "pings", "pass_thru" >>

\* C2 as stated: with the output existence check on, a non-ping element
\* whose output exists and that is not forced is never handed to the user
\* callable and, once no transform is left for it, it went through PASS_THRU
\* and is in the final output unchanged.  (Lookups that raise are left out.)
C2_Original ==
    \A k \in Ids :
        LET e == elems[k]
        IN  (OutputCheckOn /\ NonPing(e) /\ e.out_exists /\ ~e.force
                /\ NoLookupRaised(e)) =>
                /\ ~e.called
                /\ Settled(e) =>
                      /\ Visited(e, << "output_force", "pass_thru" >>)
                      /\ Written(e)
                      /\ e.payload = "element"

\* C2 amended: the same, the element being in the final output only when
\* the job has an event output that is written.
C2_ExistingOutputPassesThru ==
    \A k \in Ids :
        LET e == elems[k]
        IN  (OutputCheckOn /\ NonPing(e) /\ e.out_exists /\ ~e.force
                /\ NoLookupRaised(e)) =>
                /\ ~e.called
                /\ Settled(e) =>
                      /\ Visited(e, << "output_force", "pass_thru" >>)
                      /\ e.payload = "element"
                      /\ OutputWritten => Written(e)
                      /\ ~OutputWritten => e.at = << "output_force", "pass_thru" >>

C2_Witness ==
    \E k \in Ids :
        /\ OutputCheckOn
        /\ NonPing(elems[k]) /\ elems[k].out_exists /\ ~elems[k].force
        /\ Visited(elems[k], << "output_force", "pass_thru" >>)
        /\ Written(elems[k])
        /\ elems[k].payload = "element"
        /\ ~elems[k].called

\* C3 as stated: a non-ping element whose output exists and that is marked
\* force is handed to the user callable (once no transform is left for it, it
\* was).  (Stated for the jobs that check the output, where the force filter
\* decides; lookups that raise are left out.)
C3_Original ==
    \A k \in Ids :
        LET e == elems[k]
        IN  (OutputCheckOn /\ NonPing(e) /\ e.out_exists /\ e.force
                /\ NoLookupRaised(e) /\ Settled(e)) => e.called

\* C3 amended: such an element is sent on to input existence filtering; it
\* is handed to the user callable when the input check is skipped or its
\* input exists, and is dropped otherwise.
C3_ForcedReachesCallable ==
    \A k \in Ids :
        LET e == elems[k]
        IN  (NonPing(e) /\ e.out_exists /\ e.force /\ NoLookupRaised(e)
                /\ Settled(e)) =>
                /\ OutputCheckOn => Visited(e, << "output_force", "process" >>)
                /\ (~InputCheckOn \/ e.in_exists) => e.called
                /\ (InputCheckOn /\ ~e.in_exists) => (Dropped(e) /\ ~e.called)

C3_Witness ==
    \E k \in Ids :
        /\ OutputCheckOn /\ InputCheckOn
        /\ NonPing(elems[k]) /\ elems[k].out_exists /\ elems[k].force
        /\ Visited(elems[k], << "output_force", "process" >>)
        /\ elems[k].called

\* C4 as stated: with the input existence check on, an element whose input
\* does not exist is never handed to the user callable and never handed to
\* the output.
C4_Original ==
    \A k \in Ids :
        LET e == elems[k]
        IN  (InputCheckOn /\ ~e.in_exists) =>
                /\ ~e.called
                /\ ~HandedToOutput(e)

\* C4 amended: with the input existence check on, a non-ping element that
\* the output filter does not pass through (output check skipped, output
\* missing, or forced) and whose input does not exist is never handed to the
\* user callable nor to the output, and ends dropped.
C4_MissingInputDropped ==
    \A k \in Ids :
        LET e == elems[k]
        IN  (InputCheckOn /\ NonPing(e) /\ ~e.in_exists
                /\ (~OutputCheckOn \/ ~e.out_exists \/ e.force)) =>
                /\ ~e.called
                /\ ~HandedToOutput(e)
                /\ (Settled(e) /\ NoLookupRaised(e)) => Dropped(e)

C4_Witness ==
    \E k \in Ids :
        /\ InputCheckOn
        /\ NonPing(elems[k]) /\ ~elems[k].in_exists
        /\ Visited(elems[k], << "input_exists", "not_found" >>)
        /\ Dropped(elems[k])

\* C5: in a running job with two event inputs and one event output that is
\* written, the elements handed to the output transform are exactly those
\* the user callable put out and those of PASS_THRU of input 1 and input 2.
C5_MergeCompleteness ==
    (started /\ Len(config.event_inputs) = 2 /\ Len(config.event_outputs) = 1
        /\ OutputWritten) =>
        \A k \in Ids :
            LET e == elems[k]
            IN  /\ e.inp \in {1, 2}
                /\ HandedToOutput(e) <=>
                      \/ Visited(e, << "run", "out" >>)
                      \/ Visited(e, << "pings", "pass_thru" >>)
                      \/ Visited(e, << "output_force", "pass_thru" >>)

C5_Witness ==
    /\ Len(config.event_inputs) = 2 /\ Len(config.event_outputs) = 1
    /\ \E j \in Ids, k \in Ids :
        /\ elems[j].inp = 1 /\ elems[k].inp = 2
        /\ Visited(elems[j], << "pings", "pass_thru" >>)
        /\ Visited(elems[k], << "output_force", "pass_thru" >>)
        /\ Written(elems[j]) /\ Written(elems[k])

\* The store's answer for the path of e in the direction of the class.
StoreHas(e) ==
    IF stage.direction = "input" THEN e.in_exists ELSE e.out_exists

Processed(e) == e.at # << "stage", "in" >>

\* C6: with the entry point wrapped, an element that does not decode is
\* given no tag, one error is logged for it, no lookup is made, nothing
\* reaches the host engine; an element processed after such a drop whose
\* lookup answers carries the tag of the answer.
C6_DecodeFailureContained ==
    stage.defined = "wrapped" =>
        \A k \in Ids :
            LET e == elems[k]
            IN  Processed(e) =>
                  /\ ~Klio(e) =>
                        /\ e.at = << "stage", "nothing" >>
                        /\ e.logged = 1
                        /\ ~e.escaped
                        /\ e.lookups = << >>
                  /\ (Klio(e) /\ NoLookupRaised(e)
                        /\ \E j \in Ids : /\ ~Klio(elems[j])
                                          /\ Processed(elems[j])
                                          /\ elems[j].seq < e.seq) =>
                        /\ e.at = << "stage", IF StoreHas(e) THEN FOUND
                                             ELSE NOT_FOUND >>
                        /\ e.logged = 0
                        /\ ~e.escaped

C6_Witness ==
    /\ stage.defined = "wrapped"
    /\ \E j \in Ids, k \in Ids :
        /\ ~Klio(elems[j]) /\ elems[j].at = << "stage", "nothing" >>
        /\ elems[j].logged = 1
        /\ Klio(elems[k]) /\ elems[k].seq > elems[j].seq
        /\ elems[k].at = << "stage", FOUND >>

\* C7: when the lookup raises for a decoded element, the error reaches the
\* caller of the entry point.
C7_LookupErrorPropagates ==
    \A k \in Ids : SomeLookupRaised(elems[k]) => elems[k].escaped

\* C8: with the entry point wrapped, every element that decodes leaves the
\* class under exactly one tag: found when the store has its path, not_found
\* otherwise.
C8_ExactlyOneTag ==
    stage.defined = "wrapped" =>
        \A k \in Ids :
            LET e == elems[k]
            IN  (Klio(e) /\ Processed(e)) =>
                    e.at = << "stage", IF StoreHas(e) THEN FOUND ELSE NOT_FOUND >>

\* C9: a job that declares more than one event output is rejected while the
\* pipeline is assembled: the host engine never starts a pipeline for it and
\* no element is processed.
C9_MultipleOutputsRejected ==
    Len(config.event_outputs) > 1 =>
        /\ ~started
        /\ elems = << >>

PackagingFails ==
    config.fnapi_enabled /\ (config.has_setup_file \/ config.has_reqs_file)

AssemblyFails ==
    \/ ~env.has_run_callable
    \/ /\ \E i \in 1..Len(config.event_inputs) :
             ~config.event_inputs[i].skip_klio_read
       /\ (Len(config.data_inputs) > 1 \/ Len(config.data_outputs) > 1)
    \/ /\ Len(config.event_inputs) > 1
       /\ \A i \in 1..Len(config.event_inputs) :
             config.event_inputs[i].skip_klio_read

\* C10: when the packaging check or the assembly fails for the job,
\* pipeline.run() is never called and nothing is started.
C10_NoRunAfterFailedBuild ==
    (PackagingFails \/ AssemblyFails) =>
        /\ run_invoked = 0
        /\ ~started
        /\ pc \in {"verify", "setup", "exit", "raised"}

C10_Witness ==
    /\ ~PackagingFails
    /\ AssemblyFails
    /\ pc \in {"exit", "raised"}
    /\ run_invoked = 0

\* _setup_pipeline returned: the graph is what pipeline.run() is given.
Assembled == pc \in {"run", "wait", "done"}

SkipWrite ==
    /\ Len(config.event_outputs) > 0
    /\ config.event_outputs[1].skip_klio_write

\* The outputs of the chain of input i that make up its to_pass_thru.
PassThruSources(i) ==
    {Src(i, "pings", "pass_thru")}
    \cup (IF OutputCheckOn THEN {Src(i, "output_force", "pass_thru")} ELSE {})

PassThruPlaces == {<< "pings", "pass_thru" >>, << "output_force", "pass_thru" >>}

\* Where an element stays when a transform gave it no tag.
NoTagPlaces ==
    {<< "pings", "nothing" >>, << "output_exists", "nothing" >>,
     << "output_force", "nothing" >>, << "input_exists", "nothing" >>}

\* C11: when the event output has skip_klio_write set, no output transform
\* is part of the graph, no element (a result of the callable or an element
\* of PASS_THRU) is handed to one or written, and the user callable is still
\* applied: every element that no transform is left for and that is neither
\* in PASS_THRU, dropped, nor left untagged was handed to the callable.
C11_SkipWriteNothingWritten ==
    SkipWrite =>
        /\ \A s \in graph.stages : s.label # "Write Event Output"
        /\ Assembled => \E s \in graph.stages : s.label = "run"
        /\ \A k \in Ids :
            LET e == elems[k]
            IN  /\ ~HandedToOutput(e)
                /\ ~Visited(e, << "write", "written" >>)
                /\ Settled(e) =>
                      \/ e.called /\ e.at = << "run", "out" >>
                      \/ ~e.called /\ e.at \in PassThruPlaces
                      \/ ~e.called /\ Dropped(e)
                      \/ ~e.called /\ e.at \in NoTagPlaces

C11_Witness ==
    /\ SkipWrite
    /\ \E k \in Ids :
        /\ elems[k].called
        /\ elems[k].at = << "run", "out" >>
        /\ Settled(elems[k])

\* C12 as stated: for every assembled job with at most one event output,
\* some transform reads the union of the callable's output and the
\* to_pass_thru of every input that is read.
C12_Original ==
    (Assembled /\ Len(config.event_outputs) <= 1) =>
        \E s \in graph.stages :
            /\ Src(0, "run", "out") \in s.from
            /\ \A i \in graph.reads : PassThruSources(i) \subseteq s.from

\* C12 amended: when the job has an event output that is written, the output
\* transform reads exactly the union of the callable's output and the
\* to_pass_thru of every input that is read, and every element that went
\* through PASS_THRU or the callable is handed to it; when the job has no
\* event output or skip_klio_write is set, no transform reads the callable's
\* output or any PASS_THRU output and these elements stay where they are.
C12_MergeWhenWritten ==
    (Assembled /\ Len(config.event_outputs) <= 1) =>
        LET merged == {Src(0, "run", "out")}
                      \cup UNION {PassThruSources(i) : i \in graph.reads}
        IN  IF OutputWritten
            THEN /\ \E s \in graph.stages :
                       s.label = "Write Event Output" /\ s.from = merged
                 /\ \A k \in Ids :
                       (\/ Visited(elems[k], << "run", "out" >>)
                        \/ \E w \in PassThruPlaces : Visited(elems[k], w))
                       => HandedToOutput(elems[k])
            ELSE /\ \A s \in graph.stages : s.from \cap merged = {}
                 /\ \A k \in Ids : ~HandedToOutput(elems[k])

C12_Witness ==
    /\ Len(config.event_inputs) = 2 /\ Len(config.event_outputs) = 1
    /\ ~OutputCheckOn
    /\ \E j \in Ids, k \in Ids :
        /\ elems[j].inp # elems[k].inp
        /\ elems[j].called /\ Written(elems[j])
        /\ elems[k].ping /\ Written(elems[k])

\* C13 as stated: an existence check class of a job whose configuration
\* declares another version than the supported one raises when it is
\* defined, and no element is ever handed to it.
C13_Original ==
    config.version # SupportedVersion =>
        /\ stage.defined \in {"undefined", "error"}
        /\ elems = << >>

\* C13 amended: the same when KLIO_TEST_MODE is not set; with KLIO_TEST_MODE
\* set the metaclass returns before the version check, and the class is
\* defined, with its process() not wrapped, whatever the version is.
C13_VersionRejected ==
    /\ (config.version # SupportedVersion /\ ~env.test_mode) =>
          /\ stage.defined \in {"undefined", "error"}
          /\ elems = << >>
          /\ unread = MaxElems
    /\ env.test_mode => stage.defined \in {"undefined", "unwrapped"}

C13_Witness ==
    /\ config.version # SupportedVersion
    /\ ~env.test_mode
    /\ stage.defined = "error"

\* C14: when skip_klio_existence_check is set for the data input, the graph
\* has no input existence filter and no drop transform, no element is
\* dropped, and every element that decodes and that no transform is left
\* for was handed to the user callable or went through PASS_THRU.
C14_NoDropWhenInputUnchecked ==
    ~InputCheckOn =>
        /\ \A s \in graph.stages :
              s.label \notin {"Input Exists Filter", "Drop Not Found Data"}
        /\ \A k \in Ids :
            LET e == elems[k]
            IN  /\ ~Dropped(e)
                /\ (Klio(e) /\ Settled(e)) =>
                      \/ e.called
                      \/ \E w \in PassThruPlaces : Visited(e, w)

\* The answers of the lookups made for e, in order.
Answers(e) == [n \in 1..Len(e.lookups) |-> e.lookups[n].answer]

\* C15: when skip_klio_existence_check is set for the data output, the graph
\* has no output existence filter and no force filter and to_pass_thru of an
\* input is the pass_thru output of its ping filter; an element that decodes
\* went through PASS_THRU exactly when it is a ping; a non-ping element goes
\* from the ping filter to input existence filtering (the input existence
\* filter, or the user callable when that check is skipped as well) without
\* any output lookup; and two elements that differ only in their force
\* marker and in the existence of their output take the same route.
C15_OutputUncheckedRouting ==
    ~OutputCheckOn =>
        /\ \A s \in graph.stages :
              s.label \notin {"Output Exists Filter", "Output Force Filter"}
        /\ \A i \in graph.reads :
              /\ Src(i, "pings", "pass_thru") \in graph.to_pass_thru.src
              /\ Src(i, "output_force", "pass_thru") \notin graph.to_pass_thru.src
        /\ InputCheckOn =>
              \A s \in graph.stages :
                  s.label = "Input Exists Filter" =>
                      s.from = {Src(s.inp, "pings", "process")}
        /\ \A k \in Ids :
            LET e == elems[k]
            IN  (Klio(e) /\ Len(e.trail) > 1) =>
                  /\ (\E w \in PassThruPlaces : Visited(e, w)) <=> e.ping
                  /\ e.ping => e.trail[2] = << "pings", "pass_thru" >>
                  /\ ~e.ping => e.trail[2] = << "pings", "process" >>
                  /\ (~e.ping /\ Len(e.trail) > 2) =>
                        e.trail[3][1] = (IF InputCheckOn THEN "input_exists"
                                         ELSE "run")
                  /\ \A n \in 1..Len(e.lookups) :
                        e.lookups[n].direction = "input"
        /\ \A j \in Ids, k \in Ids :
              (/\ elems[j].wire = elems[k].wire
               /\ elems[j].ping = elems[k].ping
               /\ elems[j].in_exists = elems[k].in_exists
               /\ Answers(elems[j]) = Answers(elems[k])
               /\ Settled(elems[j]) /\ Settled(elems[k]))
              => elems[j].trail = elems[k].trail

C15_Witness ==
    /\ ~OutputCheckOn /\ InputCheckOn
    /\ \E j \in Ids, k \in Ids :
        /\ NonPing(elems[j]) /\ NonPing(elems[k])
        /\ elems[j].force /\ ~elems[k].force
        /\ elems[j].out_exists /\ elems[k].out_exists
        /\ elems[j].called /\ elems[k].called
        /\ Written(elems[j]) /\ Written(elems[k])

\* The position of a transform in the order of the chain.
Rank(var) ==
    CASE var = "read" -> 0
      [] var = "pings" -> 1
      [] var = "output_exists" -> 2
      [] var = "output_force" -> 3
      [] var = "input_exists" -> 4
      [] var = "drop" -> 5
      [] var = "run" -> 5
      [] OTHER -> 6

\* C16: the transforms an element went through are in the order ping
\* filter, output existence filter, force filter, input existence filter,
\* user callable; a lookup was made for an element only after the ping
\* filter sent it to process; no lookup was made for a ping element; there
\* is at most one lookup per direction and an input lookup is never followed
\* by an output lookup.
C16_StageOrder ==
    \A k \in Ids :
        LET e == elems[k]
        IN  /\ \A n \in 1..Len(e.trail), p \in 1..Len(e.trail) :
                  n < p => Rank(e.trail[n][1]) < Rank(e.trail[p][1])
            /\ e.lookups # << >> =>
                  /\ Len(e.trail) > 2
                  /\ e.trail[2] = << "pings", "process" >>
            /\ e.ping => e.lookups = << >>
            /\ Len(e.lookups) <= 2
            /\ Len(e.lookups) = 2 =>
                  /\ e.lookups[1].direction = "output"
                  /\ e.lookups[2].direction = "input"
            /\ Visited(e, << "run", "out" >>) =>
                  /\ OutputCheckOn => \E n \in 1..Len(e.lookups) :
                                          e.lookups[n].direction = "output"
                  /\ InputCheckOn => \E n \in 1..Len(e.lookups) :
                                         e.lookups[n].direction = "input"

C16_Witness ==
    \E k \in Ids :
        /\ elems[k].trail = << << "read", "out" >>, << "pings", "process" >>,
                               << "output_exists", "found" >>,
                               << "output_force", "process" >>,
                               << "input_exists", "found" >>,
                               << "run", "out" >> >>
        /\ Answers(elems[k]) = << "true", "true" >>

\* C17: a job that declares more than one data input or more than one data
\* output is rejected while the pipeline is assembled, whatever its event
\* inputs are: pipeline.run() is never called for it and nothing is started.
C17_MultiDataIORejected ==
    (Len(config.data_inputs) > 1 \/ Len(config.data_outputs) > 1) =>
        /\ run_invoked = 0
        /\ ~started
        /\ pc \in {"verify", "setup", "exit"}

\* What the entry point gives for element e alone when the lookup of its
\* own path fails or answers.
OwnOutcome(e, fails) ==
    EntryPoint(stage.defined, RawOf(e), Exists(stage.direction, e, fails))

HandedToCallable(e) == Visited(e, << "run", "out" >>)

InPassThru(e) == \E w \in PassThruPlaces : Visited(e, w)

WasDropped(e) == Visited(e, << "drop", "dropped" >>)

\* The outcome the flags of the job and the values of the element call for.
ExpectedOutcome(e) ==
    IF e.ping THEN "pass_thru"
    ELSE IF OutputCheckOn /\ e.out_exists /\ ~e.force THEN "pass_thru"
    ELSE IF InputCheckOn /\ ~e.in_exists THEN "dropped"
    ELSE "callable"

\* C19: in a job with one event input, an element that decodes and whose
\* lookups answer is never in two of: handed to the user callable, in
\* PASS_THRU, dropped as input not found; once no transform is left for it,
\* it is in exactly one of them, the one its ping, force, output-exists and
\* input-exists values and the two skip flags call for.
C19_ExactlyOneOutcome ==
    Len(config.event_inputs) = 1 =>
        \A k \in Ids :
            LET e == elems[k]
                outcomes == {o \in {"callable", "pass_thru", "dropped"} :
                                \/ o = "callable" /\ HandedToCallable(e)
                                \/ o = "pass_thru" /\ InPassThru(e)
                                \/ o = "dropped" /\ WasDropped(e)}
            IN  (Klio(e) /\ NoLookupRaised(e)) =>
                    /\ Cardinality(outcomes) <= 1
                    /\ e.called <=> HandedToCallable(e)
                    /\ Settled(e) => outcomes = {ExpectedOutcome(e)}

C19_Witness ==
    /\ Len(config.event_inputs) = 1
    /\ OutputCheckOn /\ InputCheckOn
    /\ \E k \in Ids :
        /\ NonPing(elems[k]) /\ elems[k].force /\ elems[k].out_exists
        /\ ~elems[k].in_exists
        /\ NoLookupRaised(elems[k])
        /\ WasDropped(elems[k]) /\ Settled(elems[k])

\* C20: run() calls itself only from the handler of a ValueError with "No
\* running job found with name" raised by pipeline.run() while update is
\* set, and that call clears update: there are never more than two nested
\* calls, the second call runs with update cleared, pipeline.run() is called
\* at most once per call, and a call without update leaves pipeline.run()
\* with a result or with SystemExit.
C20_RetryAtMostOnce ==
    [][/\ depth' \in {depth, depth + 1}
       /\ depth' <= 2
       /\ run_invoked' <= depth'
       /\ depth' = 2 => ~runtime_conf'.update
       /\ depth' = depth + 1 =>
             /\ pc = "run" /\ pc' = "verify"
             /\ runtime_conf.update
             /\ run_invoked' = run_invoked + 1
       /\ (pc = "run" /\ ~runtime_conf.update) =>
             /\ depth' = depth
             /\ pc' \in {"wait", "done", "exit"}
       /\ pc = "exit" => pc' = "exit"]_vars

C20_Witness ==
    /\ depth = 2
    /\ run_invoked = 2
    /\ pc = "exit"
    /\ ~runtime_conf.update

====
